---- MODULE Spec2Model ----
(***************************************************************************)
(* Model of the NVIDIA NIM -> OpenAI proxy (src/app.py): one inbound HTTP   *)
(* request, its Flask handler, and, on the streaming path, the generator   *)
(* stream_nvidia_response that the WSGI server iterates after the handler  *)
(* has returned.                                                           *)
(*                                                                         *)
(* Upstream lines are byte strings (sequences of byte values); decoded     *)
(* text and the frames handed to the caller are sequences of characters.   *)
(* JSON scalars of the inbound body are kept in their JSON spelling        *)
(* ("null", "false", "1").                                                 *)
(***************************************************************************)
EXTENDS Integers, Sequences, FiniteSets, TLC

VARIABLES
    method,       \* request.method
    route,        \* request path
    body,         \* inbound request body
    pc,           \* position of the request: handler, generator, done
    payload,      \* nvidia_payload built by chat_completions
    resp,         \* what the handler returned to the caller
    up,           \* outcome of the upstream HTTP request, once issued
    upCalls,      \* upstream HTTP requests issued for this inbound request
    conn,         \* the upstream connection: none, open, closed
    consumed,     \* lines taken from response.iter_lines() so far
    frames,       \* frames yielded to the caller so far
    exc,          \* text of the exception caught at line 123, or "none"
    disconnected  \* the caller went away and the generator was closed

vars == <<method, route, body, pc, payload, resp, up, upCalls, conn,
          consumed, frames, exc, disconnected>>

\* Longest upstream body, in lines, that the relay is fed.
MaxLines == 3

-----------------------------------------------------------------------------
(* Inbound requests *)

Routes == {"/", "/v1", "/health", "/v1/chat/completions", "/v1/models"}
Methods == {"GET", "POST", "OPTIONS"}

\* methods=[...] of each @app.route decorator.
RouteMethods(r) ==
    CASE r = "/v1" -> {"GET", "OPTIONS"}
      [] r = "/v1/chat/completions" -> {"POST", "OPTIONS"}
      [] r = "/v1/models" -> {"GET", "OPTIONS"}
      [] r = "/health" -> {"GET"}
      [] r = "/" -> {"GET"}

OptionalKeys == {"top_p", "frequency_penalty", "presence_penalty"}
BodyKeys == {"stream"} \cup OptionalKeys
JsonVals == {"null", "1"}

\* A body that is a JSON object: any subset of the keys, any value for each.
Objects == UNION {[S -> JsonVals] : S \in SUBSET BodyKeys}

NoBody == [kind |-> "none"]
Bodies == {[kind |-> "unparsable"], [kind |-> "nonobject"]}
            \cup {[kind |-> "object", obj |-> o] : o \in Objects}

\* Python truthiness of a JSON scalar (None, False, 0 are falsy).
Truthy(v) == v \notin {"null", "false", "0"}

\* dict.get(key, default)
Get(data, key, default) == IF key \in DOMAIN data THEN data[key] ELSE default

-----------------------------------------------------------------------------
(* Request translation, chat_completions lines 45-66 *)

BaseKeys == {"model", "messages", "temperature", "max_tokens", "stream"}

BuildPayload_null(data) ==
    [k \in BaseKeys \cup OptionalKeys |->
        CASE k = "model" -> Get(data, "model", "meta/llama-3.1-70b-instruct")
          [] k = "messages" -> Get(data, "messages", "[]")
          [] k = "temperature" -> Get(data, "temperature", "0.7")
          [] k = "max_tokens" -> Get(data, "max_tokens", "1024")
          [] k = "stream" -> Get(data, "stream", "false")
          [] OTHER -> Get(data, k, "null")]

BuildPayload(data) ==
    [k \in BaseKeys \cup (OptionalKeys \cap DOMAIN data) |->
        CASE k = "model" -> Get(data, "model", "meta/llama-3.1-70b-instruct")
          [] k = "messages" -> Get(data, "messages", "[]")
          [] k = "temperature" -> Get(data, "temperature", "0.7")
          [] k = "max_tokens" -> Get(data, "max_tokens", "1024")
          [] k = "stream" -> Get(data, "stream", "false")
          [] OTHER -> data[k]]

NoPayload == [k \in {} |-> "null"]

-----------------------------------------------------------------------------
(* Upstream outcomes *)

Statuses == {200, 401, 500, 503}
Texts == {"{\"id\": 1}", "rate limited"}
NetErrors == {"ConnectionError", "ReadTimeout"}

NoUp == [kind |-> "none", status |-> 0, text |-> "", msg |-> ""]
Raises == {[kind |-> "raise", status |-> 0, text |-> "", msg |-> m] : m \in NetErrors}
Responses == {[kind |-> "response", status |-> s, text |-> t, msg |-> ""] :
                 s \in Statuses, t \in Texts}
\* A streamed response: its body is read line by line afterwards.
StreamResponses == {[kind |-> "response", status |-> s, text |-> "", msg |-> ""] :
                       s \in {200, 503}}

\* response.json() succeeds
JsonValid(t) == t = "{\"id\": 1}"

-----------------------------------------------------------------------------
(* Responses to the caller *)

NoResp == [status |-> 0, kind |-> "none"]
Empty204 == [status |-> 204, kind |-> "empty"]
\* Flask's automatic OPTIONS answer for a route that does not list OPTIONS.
AutoOptions == [status |-> 200, kind |-> "empty"]
MethodNotAllowed == [status |-> 405, kind |-> "method_not_allowed"]
Static(doc) == [status |-> 200, kind |-> "static", doc |-> doc]
EventStream == [status |-> 200, kind |-> "event_stream"]
UpstreamJson(t) == [status |-> 200, kind |-> "upstream_json", text |-> t]

ApiError_500(s, b) ==
    [status |-> 500, kind |-> "error",
     error |-> [message |-> "NVIDIA NIM API error: " \o b,
                type |-> "nvidia_api_error", code |-> s]]

ApiError(s, b) ==
    [status |-> s, kind |-> "error",
     error |-> [message |-> "NVIDIA NIM API error: " \o b,
                type |-> "nvidia_api_error", code |-> s]]

ProxyError_coded(msg) ==
    [status |-> 500, kind |-> "error",
     error |-> [message |-> msg, type |-> "proxy_error", code |-> 500]]

ProxyError(msg) ==
    [status |-> 500, kind |-> "error",
     error |-> [message |-> msg, type |-> "proxy_error"]]

ModelsError(msg) ==
    [status |-> 500, kind |-> "error",
     error |-> [message |-> msg, type |-> "models_error"]]

Clock == {1000, 1001}

Descriptor(id, t) ==
    [id |-> id, object |-> "model", created |-> t, owned_by |-> "nvidia"]

Fallback(t1, t2) ==
    [status |-> 200, kind |-> "models",
     data |-> <<Descriptor("meta/llama-3.1-70b-instruct", t1),
                Descriptor("deepseek-ai/deepseek-r1", t2)>>]

-----------------------------------------------------------------------------
(* Static endpoints and the framework's routing *)

v1_root_always_doc(m) == Static("v1")

\* v1_root, lines 23-34
v1_root(m) == IF m = "OPTIONS" THEN Empty204 ELSE Static("v1")

\* health, lines 178-181
health(m) == Static("health")

\* root, lines 183-193
root(m) == Static("root")

\* A method the route does not list never reaches the handler: Flask answers
\* OPTIONS itself (200, Allow header, empty body) and anything else with 405.
Framework(m) == IF m = "OPTIONS" THEN AutoOptions ELSE MethodNotAllowed

-----------------------------------------------------------------------------
(* Blocking upstream calls *)

IssueUpstream_retry(calls, o) == calls + (IF o.kind = "raise" THEN 2 ELSE 1)

\* One requests.post / requests.get is one upstream HTTP request.
IssueUpstream(calls, o) == calls + 1

\* chat_completions, lines 80-104, given the outcome of requests.post
NonStreaming(o) ==
    IF o.kind = "raise" THEN ProxyError(o.msg)
    ELSE IF o.status = 200
         THEN IF JsonValid(o.text) THEN UpstreamJson(o.text)
              ELSE ProxyError("Expecting value")
         ELSE ApiError(o.status, o.text)

list_models_status(o, t1, t2) ==
    IF o.kind = "raise" THEN ModelsError(o.msg)
    ELSE IF o.status = 200
         THEN IF JsonValid(o.text) THEN UpstreamJson(o.text)
              ELSE ModelsError("Expecting value")
         ELSE [status |-> o.status, kind |-> "models",
               data |-> Fallback(t1, t2).data]

\* list_models, lines 138-176, given the outcome of requests.get and the two
\* readings of time.time()
list_models(o, t1, t2) ==
    IF o.kind = "raise" THEN ModelsError(o.msg)
    ELSE IF o.status = 200
         THEN IF JsonValid(o.text) THEN UpstreamJson(o.text)
              ELSE ModelsError("Expecting value")
         ELSE Fallback(t1, t2)

-----------------------------------------------------------------------------
(* The streaming relay, stream_nvidia_response *)

bData == <<100, 97, 116, 97, 58, 32>>       \* b'data: '
LineEmpty == <<>>                           \* b''
LineA == bData \o <<65>>                    \* b'data: A'
LineB == bData \o <<66>>                    \* b'data: B'
LineKeep == <<58, 32, 107>>                 \* b': k', a keep-alive comment
LineNoSpace == <<100, 97, 116, 97, 58, 65>> \* b'data:A'
LineShort == <<100, 97, 116, 97>>           \* b'data'
LineBad == bData \o <<255>>                 \* b'data: \xff', not UTF-8
Lines == {LineEmpty, LineA, LineB, LineKeep, LineNoSpace, LineShort, LineBad}

Chr(b) ==
    CASE b = 100 -> "d" [] b = 97 -> "a" [] b = 116 -> "t" [] b = 58 -> ":"
      [] b = 32 -> " " [] b = 65 -> "A" [] b = 66 -> "B" [] b = 107 -> "k"

\* line.decode('utf-8') raises UnicodeDecodeError on a byte that is no UTF-8
Decodable(line) == \A i \in 1..Len(line) : line[i] < 128
Decode(line) == [i \in 1..Len(line) |-> Chr(line[i])]
DecodeError == "UnicodeDecodeError"
ReadErrors == {"ChunkedEncodingError"}

\* str.startswith
StartsWith(s, p) == Len(s) >= Len(p) /\ \A i \in 1..Len(p) : s[i] = p[i]

Relays_data_colon(t) == StartsWith(t, <<"d", "a", "t", "a", ":">>)

\* line 120
Relays(t) == StartsWith(t, <<"d", "a", "t", "a", ":", " ">>)

\* line 121
Frame(t) == t \o <<"\n", "\n">>

\* line 130: f"data: {json.dumps(error_data)}\n\n"
ErrorFrame(msg) ==
    <<"d", "a", "t", "a", ":", " ">>
      \o <<"{\"error\": {\"message\": \"", msg, "\", \"type\": \"",
           "stream_error", "\"}}">>
      \o <<"\n", "\n">>

OnException_twice(fr, msg) == fr \o <<ErrorFrame(msg), ErrorFrame(msg)>>

\* lines 123-130: what the caller has received once the handler has yielded
OnException(fr, msg) == Append(fr, ErrorFrame(msg))

PostException_status(o) ==
    IF o.kind = "raise" THEN o.msg
    ELSE IF o.status # 200 THEN "HTTPError" ELSE "none"

\* lines 109-115: the exception requests.post raises, "none" when it returns
\* a response, whose status is not looked at
PostException(o) == IF o.kind = "raise" THEN o.msg ELSE "none"

-----------------------------------------------------------------------------
(* The state machine *)

Init ==
    /\ route \in Routes
    /\ method \in Methods
    /\ body \in (IF route = "/v1/chat/completions" /\ method = "POST"
                 THEN Bodies ELSE {NoBody})
    /\ pc = "recv"
    /\ payload = NoPayload
    /\ resp = NoResp
    /\ up = NoUp
    /\ upCalls = 0
    /\ conn = "none"
    /\ consumed = <<>>
    /\ frames = <<>>
    /\ exc = "none"
    /\ disconnected = FALSE

\* The request's method is not among the route's methods.
FrameworkAnswer ==
    /\ pc = "recv"
    /\ method \notin RouteMethods(route)
    /\ resp' = Framework(method)
    /\ pc' = "done"
    /\ UNCHANGED <<method, route, body, payload, up, upCalls, conn, consumed,
                   frames, exc, disconnected>>

V1Root ==
    /\ pc = "recv"
    /\ route = "/v1"
    /\ method \in RouteMethods(route)
    /\ resp' = v1_root(method)
    /\ pc' = "done"
    /\ UNCHANGED <<method, route, body, payload, up, upCalls, conn, consumed,
                   frames, exc, disconnected>>

Health ==
    /\ pc = "recv"
    /\ route = "/health"
    /\ method \in RouteMethods(route)
    /\ resp' = health(method)
    /\ pc' = "done"
    /\ UNCHANGED <<method, route, body, payload, up, upCalls, conn, consumed,
                   frames, exc, disconnected>>

Root ==
    /\ pc = "recv"
    /\ route = "/"
    /\ method \in RouteMethods(route)
    /\ resp' = root(method)
    /\ pc' = "done"
    /\ UNCHANGED <<method, route, body, payload, up, upCalls, conn, consumed,
                   frames, exc, disconnected>>

\* chat_completions, lines 36-104
ChatOptions ==
    /\ pc = "recv"
    /\ route = "/v1/chat/completions"
    /\ method = "OPTIONS"
    /\ resp' = Empty204
    /\ pc' = "done"
    /\ UNCHANGED <<method, route, body, payload, up, upCalls, conn, consumed,
                   frames, exc, disconnected>>

\* request.json raises (line 42), or data.get fails on a body that is no
\* object (line 45): caught at line 98.
ChatBadBody ==
    /\ pc = "recv"
    /\ route = "/v1/chat/completions"
    /\ method = "POST"
    /\ body.kind \in {"unparsable", "nonobject"}
    /\ resp' = ProxyError(IF body.kind = "unparsable" THEN "400 Bad Request"
                          ELSE "'list' object has no attribute 'get'")
    /\ pc' = "done"
    /\ UNCHANGED <<method, route, body, payload, up, upCalls, conn, consumed,
                   frames, exc, disconnected>>

\* Lines 74-78: the handler returns the generator unstarted.
ChatStreaming ==
    /\ pc = "recv"
    /\ route = "/v1/chat/completions"
    /\ method = "POST"
    /\ body.kind = "object"
    /\ payload' = BuildPayload(body.obj)
    /\ Truthy(payload'["stream"])
    /\ resp' = EventStream
    /\ pc' = "stream_pending"
    /\ UNCHANGED <<method, route, body, up, upCalls, conn, consumed, frames,
                   exc, disconnected>>

\* Lines 79-104.  requests.post without stream=True reads the whole body and
\* gives the connection back before it returns or raises.
ChatBlocking ==
    /\ pc = "recv"
    /\ route = "/v1/chat/completions"
    /\ method = "POST"
    /\ body.kind = "object"
    /\ payload' = BuildPayload(body.obj)
    /\ ~Truthy(payload'["stream"])
    /\ \E o \in Raises \cup Responses :
          /\ up' = o
          /\ upCalls' = IssueUpstream(upCalls, o)
          /\ resp' = NonStreaming(o)
    /\ conn' = "closed"
    /\ pc' = "done"
    /\ UNCHANGED <<method, route, body, consumed, frames, exc, disconnected>>

\* list_models, lines 132-176
ModelsOptions ==
    /\ pc = "recv"
    /\ route = "/v1/models"
    /\ method = "OPTIONS"
    /\ resp' = Empty204
    /\ pc' = "done"
    /\ UNCHANGED <<method, route, body, payload, up, upCalls, conn, consumed,
                   frames, exc, disconnected>>

ModelsGet ==
    /\ pc = "recv"
    /\ route = "/v1/models"
    /\ method = "GET"
    /\ \E o \in Raises \cup Responses, t1 \in Clock, t2 \in Clock :
          /\ t1 <= t2
          /\ up' = o
          /\ upCalls' = IssueUpstream(upCalls, o)
          /\ resp' = list_models(o, t1, t2)
    /\ conn' = "closed"
    /\ pc' = "done"
    /\ UNCHANGED <<method, route, body, payload, consumed, frames, exc,
                   disconnected>>

\* First next() on the generator: lines 108-115.  With stream=True the
\* connection stays with the response until its body is used up or it is
\* closed.
StreamOpen ==
    /\ pc = "stream_pending"
    /\ \E o \in Raises \cup StreamResponses :
          /\ up' = o
          /\ upCalls' = IssueUpstream(upCalls, o)
          /\ IF PostException(o) = "none"
             THEN /\ conn' = "open"
                  /\ pc' = "reading"
                  /\ UNCHANGED <<exc, frames>>
             ELSE /\ conn' = "closed"
                  /\ exc' = PostException(o)
                  /\ frames' = OnException(frames, exc')
                  /\ pc' = "yield_err"
    /\ UNCHANGED <<method, route, body, payload, resp, consumed, disconnected>>

\* One turn of the loop, lines 117-121, for a line the upstream delivered.
StreamLine ==
    /\ pc = "reading"
    /\ Len(consumed) < MaxLines
    /\ \E line \in Lines :
          /\ consumed' = Append(consumed, line)
          /\ IF line = <<>>
             THEN UNCHANGED <<frames, exc, pc>>
             ELSE IF ~Decodable(line)
             THEN /\ exc' = DecodeError
                  /\ frames' = OnException(frames, exc')
                  /\ pc' = "yield_err"
             ELSE IF Relays(Decode(line))
             THEN /\ frames' = Append(frames, Frame(Decode(line)))
                  /\ pc' = "yield_data"
                  /\ UNCHANGED exc
             ELSE UNCHANGED <<frames, exc, pc>>
    /\ UNCHANGED <<method, route, body, payload, resp, up, upCalls, conn,
                   disconnected>>

\* iter_lines() is exhausted: the body is used up, which releases the
\* connection, and the generator returns.
StreamEnd ==
    /\ pc = "reading"
    /\ conn' = "closed"
    /\ pc' = "done"
    /\ UNCHANGED <<method, route, body, payload, resp, up, upCalls, consumed,
                   frames, exc, disconnected>>

\* iter_lines() raises: the HTTP client drops the broken connection.
StreamReadError ==
    /\ pc = "reading"
    /\ \E m \in ReadErrors :
          /\ exc' = m
          /\ frames' = OnException(frames, m)
    /\ conn' = "closed"
    /\ pc' = "yield_err"
    /\ UNCHANGED <<method, route, body, payload, resp, up, upCalls, consumed,
                   disconnected>>

\* next() after the yield of line 121
Resume ==
    /\ pc = "yield_data"
    /\ pc' = "reading"
    /\ UNCHANGED <<method, route, body, payload, resp, up, upCalls, conn,
                   consumed, frames, exc, disconnected>>

\* next() after the yield of line 130: the generator returns.  Nothing in
\* lines 106-130 closes the response.
ResumeAfterError ==
    /\ pc = "yield_err"
    /\ pc' = "done"
    /\ UNCHANGED <<method, route, body, payload, resp, up, upCalls, conn,
                   consumed, frames, exc, disconnected>>

\* The caller goes away: the server calls close() on the generator, which
\* raises GeneratorExit at the yield it is suspended at (or does nothing on
\* a generator never started).  GeneratorExit is no Exception, so line 123
\* does not catch it; nothing in lines 106-130 closes the response.
Disconnect ==
    /\ pc \in {"stream_pending", "yield_data", "yield_err"}
    /\ pc' = "done"
    /\ disconnected' = TRUE
    /\ UNCHANGED <<method, route, body, payload, resp, up, upCalls, conn,
                   consumed, frames, exc>>

\* The response object that nothing closed is collected at some later time,
\* if at all, and its finalizer closes the socket.
Finalize ==
    /\ pc = "done"
    /\ conn = "open"
    /\ conn' = "closed"
    /\ UNCHANGED <<method, route, body, pc, payload, resp, up, upCalls,
                   consumed, frames, exc, disconnected>>

Next ==
    \/ FrameworkAnswer
    \/ V1Root
    \/ Health
    \/ Root
    \/ ChatOptions
    \/ ChatBadBody
    \/ ChatStreaming
    \/ ChatBlocking
    \/ ModelsOptions
    \/ ModelsGet
    \/ StreamOpen
    \/ StreamLine
    \/ StreamEnd
    \/ StreamReadError
    \/ Resume
    \/ ResumeAfterError
    \/ Disconnect
    \/ Finalize

Spec == Init /\ [][Next]_vars

-----------------------------------------------------------------------------
(* Properties *)

Chat == "/v1/chat/completions"

\* The text starts with the six characters of "data: ".
HasDataPrefix(t) ==
    Len(t) >= 6 /\ SubSeq(t, 1, 6) = <<"d", "a", "t", "a", ":", " ">>

\* The frames a sequence of upstream lines calls for: one per non-empty
\* line whose text starts with "data: ", the text followed by two newlines.
RECURSIVE ExpectedFrames(_)
ExpectedFrames(ls) ==
    IF ls = <<>> THEN <<>>
    ELSE LET l == Head(ls)
         IN (IF Len(l) > 0 /\ Decodable(l) /\ HasDataPrefix(Decode(l))
             THEN <<Decode(l) \o <<"\n", "\n">>>>
             ELSE <<>>) \o ExpectedFrames(Tail(ls))

\* C1: as long as the relay has met no exception, the frames delivered are
\* exactly the non-empty upstream lines read so far that start with
\* "data: ", each once as line + "\n\n", in upstream order, and nothing else.
C1_RelayExact ==
    (route = Chat /\ exc = "none") => frames = ExpectedFrames(consumed)

\* A finished relay of a data line, a keep-alive and a second data line.
C1_Witness ==
    /\ pc = "done" /\ exc = "none" /\ ~disconnected
    /\ consumed = <<LineA, LineKeep, LineB>>
    /\ frames = <<Decode(LineA) \o <<"\n", "\n">>, Decode(LineB) \o <<"\n", "\n">>>>

StreamErrorFrames ==
    {ErrorFrame(m) : m \in NetErrors \cup ReadErrors \cup {DecodeError}}

C2_State ==
    exc # "none" =>
        /\ pc \in {"yield_err", "done"}
        /\ Len(frames) >= 1
        /\ frames[Len(frames)] = ErrorFrame(exc)
        /\ SubSeq(frames, 1, Len(frames) - 1) = ExpectedFrames(consumed)
        /\ Cardinality({i \in 1..Len(frames) : frames[i] \in StreamErrorFrames}) = 1

\* C2: once an exception has occurred in the relay (opening the POST,
\* reading a line, decoding a line), the caller has the frames emitted
\* before it followed by exactly one stream_error frame, and from then on
\* no frame is added and the relay reads no further line.
C2_ErrorOnce ==
    /\ []C2_State
    /\ [][exc # "none" => (frames' = frames /\ exc' = exc /\ pc' # "reading")]_vars

\* A relay that ended on an exception after at least one data frame.
C2_Witness ==
    /\ pc = "done" /\ exc # "none" /\ ~disconnected
    /\ Len(frames) >= 2

IsFallback(r) ==
    /\ r.status = 200
    /\ r.kind = "models"
    /\ Len(r.data) = 2
    /\ r.data[1].id = "meta/llama-3.1-70b-instruct"
    /\ r.data[2].id = "deepseek-ai/deepseek-r1"

ModelsDone == pc = "done" /\ route = "/v1/models" /\ method = "GET"

\* C3 as stated: whenever the upstream models call raises or does not
\* answer a usable 200, the caller gets HTTP 200 with the fallback list.
C3_Original ==
    (ModelsDone /\ (up.kind = "raise" \/ up.status # 200 \/ ~JsonValid(up.text)))
        => IsFallback(resp)

\* C3, amended: a non-200 upstream status gives HTTP 200 with the two
\* fallback descriptors; an exception (the call raising, or a 200 body that
\* is not JSON) gives HTTP 500 with a models_error envelope.
C3_Amended ==
    ModelsDone =>
        /\ (up.kind = "response" /\ up.status # 200) => IsFallback(resp)
        /\ up.kind = "raise" =>
              /\ resp.status = 500 /\ resp.kind = "error"
              /\ resp.error = [message |-> up.msg, type |-> "models_error"]
        /\ (up.kind = "response" /\ up.status = 200 /\ ~JsonValid(up.text)) =>
              /\ resp.status = 500 /\ resp.kind = "error"
              /\ resp.error.type = "models_error"

\* The upstream answered 503 and the caller got the fallback list.
C3_Witness == ModelsDone /\ up.status = 503 /\ IsFallback(resp)

\* C4: in no terminal state of a request is its upstream connection open.
C4_Released == pc = "done" => conn # "open"

\* The inbound body parsed to an object whose stream value is falsy.
BlockingDone ==
    /\ pc = "done" /\ route = Chat /\ method = "POST"
    /\ body.kind = "object"
    /\ ~Truthy(Get(body.obj, "stream", "false"))

\* C5: non-streaming, upstream status s other than 200 with body text b:
\* the caller gets status s and the nvidia_api_error envelope with
\* message "NVIDIA NIM API error: " + b and code s.
C5_StatusPropagated ==
    (BlockingDone /\ up.kind = "response" /\ up.status # 200) =>
        /\ resp.status = up.status
        /\ resp.kind = "error"
        /\ resp.error = [message |-> "NVIDIA NIM API error: " \o up.text,
                         type |-> "nvidia_api_error", code |-> up.status]
        /\ resp.error.code = resp.status

\* Upstream 503 "rate limited" reported as 503.
C5_Witness ==
    /\ BlockingDone /\ up.status = 503 /\ up.text = "rate limited"
    /\ resp.status = 503

\* The exception the non-streaming handling met, "none" if it met none.
BlockingException ==
    IF body.kind = "unparsable" THEN "400 Bad Request"
    ELSE IF body.kind = "nonobject" THEN "'list' object has no attribute 'get'"
    ELSE IF up.kind = "raise" THEN up.msg
    ELSE IF up.kind = "response" /\ up.status = 200 /\ ~JsonValid(up.text)
         THEN "Expecting value"
    ELSE "none"

\* C6: non-streaming, any exception (bad inbound body, network failure,
\* timeout, a 200 body that is not JSON): HTTP 500, envelope
\* {error: {message: exception text, type: proxy_error}} without a code
\* field, never the upstream body.
C6_ProxyError ==
    (/\ pc = "done" /\ route = Chat /\ method = "POST"
     /\ body.kind \in {"unparsable", "nonobject"} \/ BlockingDone
     /\ BlockingException # "none") =>
        /\ resp.status = 500
        /\ resp.kind = "error"
        /\ DOMAIN resp.error = {"message", "type"}
        /\ resp.error.type = "proxy_error"
        /\ resp.error.message = BlockingException

\* An upstream 200 whose body is not JSON, reported as proxy_error.
C6_Witness ==
    /\ BlockingDone /\ up.status = 200 /\ ~JsonValid(up.text)
    /\ resp.kind = "error" /\ resp.error.type = "proxy_error"

\* C7: each of top_p, frequency_penalty, presence_penalty is a key of the
\* upstream payload exactly when it is a key of the inbound body, and then
\* with the inbound value, an explicit null included.
C7_OptionalKeys ==
    (route = Chat /\ body.kind = "object" /\ pc # "recv") =>
        \A k \in OptionalKeys :
            /\ k \in DOMAIN payload <=> k \in DOMAIN body.obj
            /\ k \in DOMAIN body.obj => payload[k] = body.obj[k]

\* top_p sent as null, frequency_penalty left out.
C7_Witness ==
    /\ route = Chat /\ body.kind = "object" /\ pc # "recv"
    /\ "top_p" \in DOMAIN body.obj /\ body.obj["top_p"] = "null"
    /\ "frequency_penalty" \notin DOMAIN body.obj
    /\ "top_p" \in DOMAIN payload /\ payload["top_p"] = "null"
    /\ "frequency_penalty" \notin DOMAIN payload

\* C8 as stated: OPTIONS on any route gives 204, empty, no upstream call.
C8_Original ==
    (pc = "done" /\ method = "OPTIONS") =>
        resp.status = 204 /\ resp.kind = "empty" /\ upCalls = 0

\* C8, amended: OPTIONS on /v1, /v1/chat/completions and /v1/models gives
\* 204 with an empty body; on / and /health, which list GET only, it gives
\* the framework's automatic answer, 200 with an empty body; none of them
\* performs an upstream call.
C8_Amended ==
    (pc = "done" /\ method = "OPTIONS") =>
        /\ upCalls = 0
        /\ resp.kind = "empty"
        /\ route \in {"/v1", Chat, "/v1/models"} => resp.status = 204
        /\ route \in {"/", "/health"} => resp.status = 200

\* OPTIONS on /v1 answered 204.
C8_Witness ==
    /\ pc = "done" /\ method = "OPTIONS" /\ route = "/v1"
    /\ resp.status = 204 /\ upCalls = 0

\* C9: at most one upstream HTTP request per inbound request, whatever its
\* outcome; none on /, /v1 and /health.
C9_AtMostOne ==
    /\ upCalls <= 1
    /\ route \in {"/", "/v1", "/health"} => upCalls = 0

\* A streamed relay that broke after its one upstream request.
C9_Witness ==
    /\ pc = "done" /\ route = Chat /\ upCalls = 1
    /\ exc \in ReadErrors

\* No line read so far starts with the bytes of "data: ".
NoDataLine ==
    \A i \in 1..Len(consumed) :
        ~(Len(consumed[i]) >= 6 /\ SubSeq(consumed[i], 1, 6) = bData)

\* C10 as stated: on the streaming path the caller's status is 200, the
\* upstream call is not made before the body is iterated, and a non-200
\* upstream response none of whose lines starts with "data: " leaves the
\* caller with no frame at all.
C10_Original ==
    resp.kind = "event_stream" =>
        /\ resp.status = 200
        /\ pc = "stream_pending" => upCalls = 0
        /\ (up.kind = "response" /\ up.status # 200 /\ NoDataLine) => frames = <<>>

\* C10, amended: on the streaming path the caller's status is 200, the
\* upstream call is not made before the body is iterated, an upstream
\* response of any status raises nothing by itself, and when its body is
\* read and decoded without an exception and none of its lines starts with
\* "data: ", the caller has no frame at all.
C10_Amended ==
    resp.kind = "event_stream" =>
        /\ resp.status = 200
        /\ pc = "stream_pending" => upCalls = 0
        /\ up.kind = "response" => exc \in {"none", DecodeError} \cup ReadErrors
        /\ (up.kind = "response" /\ exc = "none" /\ NoDataLine) => frames = <<>>

\* An upstream 503 whose body had lines, none of them data, relayed to the
\* end as an empty stream.
C10_Witness ==
    /\ pc = "done" /\ resp.kind = "event_stream" /\ ~disconnected
    /\ up.status = 503 /\ exc = "none"
    /\ Len(consumed) >= 1 /\ NoDataLine /\ frames = <<>>

====
